---- MODULE Spec2Model ----
(***************************************************************************)
(* Model of the neuro-twin backend: the interpolated simulation database   *)
(* (simulation_db.py), the readout layer and the controller                *)
(* (neuro_controller.py).                                                  *)
(*                                                                         *)
(* Number representation.  All quantities are integers (fixed point):      *)
(*   theta, beta         in units of 1/20   (0.25 = 5, 0.8 = 16, 1.0 = 20) *)
(*   time t              in ticks of 25 s   (so that the precession phase  *)
(*                       2*pi*freq*t*0.01 is a whole number of sixteenths  *)
(*                       of a turn)                                        *)
(*   sin                 a 16-entry table, values times 10                 *)
(*   stored patterns     normalised to max |value| = 20                    *)
(*   alpha, b_ext, ...   times 10^6 (sim_params, metadata)                 *)
(*   readout arithmetic  exact integer arithmetic                          *)
(***************************************************************************)
EXTENDS Integers, Sequences, FiniteSets, TLC

\* ------------------------------------------------------------------ bounds
\* Side of the square field (128 in the source, scaled down).
GRID_SIZE == 2
\* Number of kinematic channels (20 in the source, scaled down).
output_dim == 2
\* Number of controller constructions per run.
MaxConstruct == 1
\* Number of get_simulation_db acquisitions per run.
MaxAcquire == 2
\* Number of database constructor runs that may raise per run.
MaxCtorFail == 1
\* Number of update_hebbian calls per controller.
MaxTrain == 2
\* Number of frames sent on one auto-stream connection.
MaxFrames == 260

\* ------------------------------------------------------------- arithmetic
None == [kind |-> "None"]

Abs(x) == IF x < 0 THEN -x ELSE x

Sgn(x) == IF x < 0 THEN -1 ELSE IF x > 0 THEN 1 ELSE 0

\* np.clip(x, lo, hi)
Clip(x, lo, hi) == IF x < lo THEN lo ELSE IF x > hi THEN hi ELSE x

\* floor(sqrt(n))
Isqrt(n) == CHOOSE r \in 0..(n + 1) : r * r <= n /\ (r + 1) * (r + 1) > n

\* sin at k sixteenths of a turn, times 10
Sin16(k) == <<0, 4, 7, 9, 10, 9, 7, 4, 0, -4, -7, -9, -10, -9, -7, -4>>[(k % 16) + 1]

\* round(x, d) of a value held times 10^6: to the nearest multiple of unit,
\* halves to even (Python's round)
Round(x, unit) ==
    LET q == x \div unit
        r == x % unit
    IN  IF 2 * r < unit THEN q * unit
        ELSE IF 2 * r > unit THEN (q + 1) * unit
        ELSE IF q % 2 = 0 THEN q * unit ELSE (q + 1) * unit

RECURSIVE SumTo(_, _)
\* sum of f[1..n]
SumTo(f, n) == IF n = 0 THEN 0 ELSE f[n] + SumTo(f, n - 1)

RECURSIVE MaxAbsTo(_, _)
\* np.max(np.abs(f[1..n]))
MaxAbsTo(f, n) ==
    IF n = 0 THEN 0
    ELSE LET m == MaxAbsTo(f, n - 1) IN IF Abs(f[n]) > m THEN Abs(f[n]) ELSE m

\* ------------------------------------------------------- simulation_db.py
\* ReservoirReadout.__init__ default input_dim = 128*128 = GRID_SIZE^2
input_dim == GRID_SIZE * GRID_SIZE

Pixels == 1..(GRID_SIZE * GRID_SIZE)

\* InterpolatedSimulationDB.PARAM_STEPS = [0.0, 0.25, 0.5, 0.75, 1.0]
PARAM_STEPS == <<0, 5, 10, 15, 20>>

StepSet == {PARAM_STEPS[i] : i \in 1..Len(PARAM_STEPS)}

\* np.linspace(-5, 5, GRID_SIZE)[c], c = 0..GRID_SIZE-1 (truncated to integer)
Linspace(c) == -5 + (10 * c) \div (GRID_SIZE - 1)

\* np.meshgrid(x, y): X varies along columns, Y along rows
MeshX(p) == Linspace((p - 1) % GRID_SIZE)

MeshY(p) == Linspace((p - 1) \div GRID_SIZE)

\* R = sqrt(X**2 + Y**2)
MeshR(p) == Isqrt(MeshX(p) * MeshX(p) + MeshY(p) * MeshY(p))

\* _compute_pattern(X, Y, R, theta, beta).  The linear parts are exact; the
\* transcendental position terms are integer stand-ins: sin by Sin16, the sign
\* of sin(arctan2(Y, X)) and of tanh by Sgn, the exponential envelopes by 1.
compute_pattern(theta, beta) ==
    LET freq == 20 + 3 * beta                \* (5 + 15*beta) * 4
        amplitude == 20 + 4 * beta           \* (0.2 + 0.8*beta) * 100
        vortex == [p \in Pixels |-> Sgn(MeshY(p)) * theta]
        spin_wave == [p \in Pixels |-> Sin16(MeshR(p) * freq) * amplitude]
        domain_wall == [p \in Pixels |-> 10 * Sgn(MeshX(p))]
        interference ==
            [p \in Pixels |->
                IF beta > 10
                THEN (Sin16(Isqrt((MeshX(p) - 3) * (MeshX(p) - 3) + MeshY(p) * MeshY(p)) * freq)
                      + Sin16(Isqrt((MeshX(p) + 3) * (MeshX(p) + 3) + MeshY(p) * MeshY(p)) * freq))
                     * (beta - 10)
                ELSE 0]
        pattern ==
            [p \in Pixels |->
                3 * vortex[p] * theta
                + 4 * ((spin_wave[p] * beta) \div 100)
                + 2 * domain_wall[p] * (20 - Abs(theta - beta))
                + interference[p]]
        max_val == MaxAbsTo(pattern, GRID_SIZE * GRID_SIZE)
    IN  IF max_val > 0
        THEN [p \in Pixels |-> (pattern[p] * 20) \div max_val]
        ELSE pattern

\* _generate_grid_patterns: self.patterns[(theta, beta)] for the 5x5 grid
generate_grid_patterns ==
    [k \in StepSet \X StepSet |-> compute_pattern(k[1], k[2])]

\* _build_interpolators: pattern_array[i, j, :] = patterns[(theta_i, beta_j)].flatten()
build_interpolators(patterns) ==
    [i \in 1..Len(PARAM_STEPS) |->
        [j \in 1..Len(PARAM_STEPS) |-> patterns[<<PARAM_STEPS[i], PARAM_STEPS[j]>>]]]

\* InterpolatedSimulationDB.__init__ of the object with identity id
InterpolatedSimulationDB(id) ==
    LET patterns == generate_grid_patterns
    IN  [kind |-> "db", id |-> id, patterns |-> patterns,
         pattern_array |-> build_interpolators(patterns)]

\* RegularGridInterpolator's cell search on PARAM_STEPS: the number of steps
\* below x, minus one, kept inside the first..last cell (1-based here)
find_index(x) ==
    Clip(Cardinality({i \in 1..Len(PARAM_STEPS) : PARAM_STEPS[i] < x}), 1, Len(PARAM_STEPS) - 1)

\* interpolator with the two theta weights exchanged
interpolator_swapped(pattern_array, theta, beta) ==
    LET i == find_index(theta)
        j == find_index(beta)
        fx == theta - PARAM_STEPS[i]
        fy == beta - PARAM_STEPS[j]
    IN  [p \in Pixels |->
            fx * (5 - fy) * pattern_array[i][j][p]
            + fx * fy * pattern_array[i][j + 1][p]
            + (5 - fx) * (5 - fy) * pattern_array[i + 1][j][p]
            + (5 - fx) * fy * pattern_array[i + 1][j + 1][p]]

\* self.interpolator((theta, beta)), method='linear': per-pixel bilinear blend
\* of the four corners of the cell; the result is held times 25
interpolator(pattern_array, theta, beta) ==
    LET i == find_index(theta)
        j == find_index(beta)
        fx == theta - PARAM_STEPS[i]         \* norm_distance * 5
        fy == beta - PARAM_STEPS[j]
    IN  [p \in Pixels |->
            (5 - fx) * (5 - fy) * pattern_array[i][j][p]
            + (5 - fx) * fy * pattern_array[i][j + 1][p]
            + fx * (5 - fy) * pattern_array[i + 1][j][p]
            + fx * fy * pattern_array[i + 1][j + 1][p]]

\* get_magnetic_state(theta_power, beta_power, t)
get_magnetic_state(db, theta_power, beta_power, t) ==
    LET theta == Clip(theta_power, 0, 20)
        beta == Clip(beta_power, 0, 20)
        interpolated_flat == interpolator(db.pattern_array, theta, beta)
        precession_freq == 20 + 3 * beta_power           \* (5 + beta_power*15) * 4
        time_modulation == 50 + Sin16(precession_freq * t)   \* (1 + 0.2*sin(..)) * 50
    IN  [p \in Pixels |-> (interpolated_flat[p] * time_modulation) \div (25 * 50)]

\* get_physics_metadata(theta_power, beta_power); scalars times 10^6
get_physics_metadata(db, theta_power, beta_power) ==
    LET alpha == 10000 + 2000 * theta_power
        b_ext == 20000 + 4000 * beta_power
        freq == 5000000 + 750000 * beta_power
    IN  [alpha_gilbert |-> Round(alpha, 100),
         b_external_tesla |-> Round(b_ext, 100),
         dominant_freq_ghz |-> Round(freq, 10000),
         source |-> "interpolated_mumax3_5x5",
         grid |-> <<GRID_SIZE, GRID_SIZE>>,
         material |-> "Permalloy_Ni80Fe20",
         interpolation |-> "bilinear"]

\* ----------------------------------------------------- neuro_controller.py
\* ReservoirReadout.__init__: W_out = randn(output_dim, input_dim) * 0.01 (one
\* draw per seed, small values), bias = zeros(output_dim)
ReservoirReadout(seed) ==
    [W_out |-> [j \in 1..output_dim |->
                  [i \in 1..input_dim |-> ((seed * ((j - 1) * input_dim + i)) % 5) - 2]],
     bias |-> [j \in 1..output_dim |-> 0]]

\* np.dot(W_out, m_vec)[j] for len(m_vec) = input_dim
Dot(W_out, m_vec, j) == SumTo([i \in 1..input_dim |-> W_out[j][i] * m_vec[i]], input_dim)

\* predict that pads a short field with zeros and truncates a long one
predict_resizing(readout, magnetic_state) ==
    LET m_vec == [i \in 1..input_dim |-> IF i <= Len(magnetic_state) THEN magnetic_state[i] ELSE 0]
    IN  [kind |-> "vector",
         value |-> [j \in 1..output_dim |-> Dot(readout.W_out, m_vec, j) + readout.bias[j]]]

\* ReservoirReadout.predict(magnetic_state); the field is held flattened.
\* np.dot raises ValueError when the shapes are not aligned.
predict(readout, magnetic_state) ==
    LET m_vec == magnetic_state
    IN  IF Len(m_vec) # input_dim
        THEN [kind |-> "raise", error |-> "ValueError"]
        ELSE [kind |-> "vector",
              value |-> [j \in 1..output_dim |-> Dot(readout.W_out, m_vec, j) + readout.bias[j]]]

\* error taken to be the target itself
hebbian_error_target(current_output, target_output) ==
    [j \in 1..output_dim |-> target_output[j]]

\* error = target_output - current_output
hebbian_error(current_output, target_output) ==
    [j \in 1..output_dim |-> target_output[j] - current_output[j]]

\* self.W_out += learning_rate * np.outer(error, m_vec).  The in-place add
\* broadcasts a one-column delta over every column and raises ValueError for
\* every other column count that differs from input_dim.
hebbian_W(W_out, m_vec, error, learning_rate) ==
    IF Len(m_vec) = input_dim
    THEN [kind |-> "ok",
          W_out |-> [j \in 1..output_dim |->
                       [i \in 1..input_dim |-> W_out[j][i] + learning_rate * error[j] * m_vec[i]]]]
    ELSE IF Len(m_vec) = 1
    THEN [kind |-> "ok",
          W_out |-> [j \in 1..output_dim |->
                       [i \in 1..input_dim |-> W_out[j][i] + learning_rate * error[j] * m_vec[1]]]]
    ELSE [kind |-> "raise", error |-> "ValueError"]

\* bias update with the learning rate left out
hebbian_bias_unscaled(bias, error, learning_rate) ==
    [j \in 1..output_dim |-> bias[j] + error[j]]

\* self.bias += learning_rate * error
hebbian_bias(bias, error, learning_rate) ==
    [j \in 1..output_dim |-> bias[j] + learning_rate * error[j]]

\* ReservoirReadout.update_hebbian, run without interruption: the readout
\* after the call and what the call signals
update_hebbian(readout, magnetic_state, current_output, target_output, learning_rate) ==
    LET error == hebbian_error(current_output, target_output)
        w == hebbian_W(readout.W_out, magnetic_state, error, learning_rate)
    IN  IF w.kind = "raise"
        THEN [readout |-> readout, signal |-> w]
        ELSE [readout |-> [W_out |-> w.W_out,
                           bias |-> hebbian_bias(readout.bias, error, learning_rate)],
              signal |-> None]

\* fallback_state with the mesh one row short of the readout's input
fallback_state_short(alpha, b_ext_magnitude, t) ==
    [p \in 1..(GRID_SIZE * (GRID_SIZE - 1)) |-> (Sin16((5 * MeshR(p)) \div 2) * b_ext_magnitude) \div 100000]

\* process_eeg_stream, fallback branch: sin(R - 2*pi*2.0*t) * exp(-0.1*R*alpha)
\* * b_ext_magnitude on a 128x128 (GRID_SIZE) mesh.  t is a whole number of
\* 25 s ticks, so 2.0*t is a whole number of turns; sin uses Sin16 with R
\* radians = 5R/2 sixteenths of a turn, exp is taken to first order.
fallback_state(alpha, b_ext_magnitude, t) ==
    [p \in Pixels |->
        (Sin16((5 * MeshR(p)) \div 2 - 16 * 50 * t)
         * (1000 - (MeshR(p) * alpha) \div 10000)
         * (b_ext_magnitude \div 100)) \div 100000]

\* fluidity from the mean square of the outputs instead of their variance
fluidity_of_mean_square(kinematics) ==
    LET n == output_dim
        s2 == SumTo([j \in 1..n |-> kinematics[j] * kinematics[j]], n)
    IN  [num |-> n * n, den |-> n * n + n * s2]

\* np.var(kinematics) = (n * sum(k^2) - sum(k)^2) / n^2, so
\* 1.0 / (1.0 + var) = n^2 / (n^2 + n * sum(k^2) - sum(k)^2), kept as a fraction
fluidity_of(kinematics) ==
    LET n == output_dim
        s1 == SumTo(kinematics, n)
        s2 == SumTo([j \in 1..n |-> kinematics[j] * kinematics[j]], n)
    IN  [num |-> n * n, den |-> n * n + n * s2 - s1 * s1]

\* MagnonicController.process_eeg_stream(theta_power, beta_power) with the
\* clock reading t = time.time()
process_eeg_stream(self, theta_power, beta_power, t) ==
    LET alpha == 10000 + 2500 * theta_power          \* (0.01 + 0.05*theta) * 10^6
        b_ext_magnitude == 2500 * beta_power         \* (0.05*beta) * 10^6
        precomputed == self.use_precomputed /\ self.sim_db # None
        magnetic_state ==
            IF precomputed
            THEN get_magnetic_state(self.sim_db, theta_power, beta_power, t)
            ELSE fallback_state(alpha, b_ext_magnitude, t)
        physics_meta ==
            IF precomputed
            THEN get_physics_metadata(self.sim_db, theta_power, beta_power)
            ELSE [source |-> "mock"]
        kinematics == predict(self.readout, magnetic_state)
    IN  IF kinematics.kind = "raise"
        THEN kinematics
        ELSE [kind |-> "bundle",
              joint_angles |-> kinematics.value,
              fluidity_index |-> fluidity_of(kinematics.value),
              sim_params |-> [alpha |-> alpha, b_ext |-> b_ext_magnitude,
                              theta |-> theta_power, beta |-> beta_power],
              physics |-> physics_meta]

\* simulate_action_pattern with the WALK and RUN pairs exchanged
simulate_action_pattern_swapped(self, action_name, t) ==
    IF action_name = "STAND" THEN process_eeg_stream(self, 16, 2, t)
    ELSE IF action_name = "WALK" THEN process_eeg_stream(self, 2, 18, t)
    ELSE IF action_name = "RUN" THEN process_eeg_stream(self, 8, 10, t)
    ELSE process_eeg_stream(self, 10, 10, t)

\* MagnonicController.simulate_action_pattern(action_name)
simulate_action_pattern(self, action_name, t) ==
    IF action_name = "STAND" THEN process_eeg_stream(self, 16, 2, t)
    ELSE IF action_name = "WALK" THEN process_eeg_stream(self, 8, 10, t)
    ELSE IF action_name = "RUN" THEN process_eeg_stream(self, 2, 18, t)
    ELSE process_eeg_stream(self, 10, 10, t)

\* get_simulation_db that constructs on every call
get_simulation_db_uncached(instance, runs, ctor_raises) ==
    IF ctor_raises
    THEN [instance |-> None, ret |-> [kind |-> "raise", error |-> "Exception"], ran |-> 1]
    ELSE [instance |-> InterpolatedSimulationDB(runs + 1),
          ret |-> InterpolatedSimulationDB(runs + 1), ran |-> 1]

\* get_simulation_db(): the module global after the call, what the call
\* returns, and whether the constructor ran.  ctor_raises is the outcome of
\* InterpolatedSimulationDB() when it runs.
get_simulation_db(instance, runs, ctor_raises) ==
    IF instance = None
    THEN IF ctor_raises
         THEN [instance |-> None, ret |-> [kind |-> "raise", error |-> "Exception"], ran |-> 1]
         ELSE [instance |-> InterpolatedSimulationDB(runs + 1),
               ret |-> InterpolatedSimulationDB(runs + 1), ran |-> 1]
    ELSE [instance |-> instance, ret |-> instance, ran |-> 0]

\* MagnonicController._init_simulation_db: what the try block yields.  Only
\* ImportError is caught; any other exception leaves __init__.
init_simulation_db(imported, acquired) ==
    IF ~imported
    THEN [kind |-> "ok", sim_db |-> None, use_precomputed |-> FALSE]
    ELSE IF acquired.kind = "raise"
    THEN acquired
    ELSE [kind |-> "ok", sim_db |-> acquired, use_precomputed |-> TRUE]

\* websocket_auto_stream: the action list and the frames each index lasts
actions == <<"STAND", "WALK", "RUN", "WALK", "STAND">>

CycleFrames == 50

\* ------------------------------------------------------------------ inputs
\* (theta_power, beta_power) pairs handed to the controller and the database:
\* an out-of-range pair, a corner, a grid point and a point inside a cell
ParamInputs == {<<-20, 40>>, <<0, 20>>, <<5, 15>>, <<7, 12>>}

\* clock readings, in ticks; 0 is also the default of get_magnetic_state's t
Times == {0, 1}

ActionNames == {"STAND", "WALK", "RUN", "JUMP"}

\* fields handed to the readout directly: one of input_dim pixels, and an
\* empty, a one-pixel and an over-long one
ReadoutFields ==
    {[i \in 1..input_dim |-> i % 2], <<>>, <<1>>, [i \in 1..(input_dim + 1) |-> 1]}

\* seeds of the initial weight draw
Seeds == {1, 2}

\* current and target outputs of update_hebbian, of length output_dim
OutputVectors == {[j \in 1..output_dim |-> 0], [j \in 1..output_dim |-> j % 2]}

LearningRates == {1, 2}

\* ------------------------------------------------------------------- state
VARIABLES
    module_present,   \* whether "from simulation_db import get_simulation_db" succeeds
    db_instance,      \* simulation_db._db_instance
    ctor_runs,        \* number of InterpolatedSimulationDB() runs so far
    ctor_fails,       \* how many of them raised
    acquisitions,     \* number of get_simulation_db() calls that returned
    controller,       \* api_server.controller (None before construction)
    constructions,    \* number of MagnonicController() calls so far
    readout_init,     \* the controller's readout as __init__ left it
    train_steps,      \* update_hebbian calls on the controller's readout
    last,             \* the last call made and its arguments
    result,           \* what the last call returned or raised
    pc,               \* per thread: where its update_hebbian call stands
    frame,            \* per thread: the locals of its update_hebbian call
    stream            \* the /ws/stream connection's action_idx and frame_count (None when closed)

vars == <<module_present, db_instance, ctor_runs, ctor_fails, acquisitions,
          controller, constructions, readout_init, train_steps, last, result,
          pc, frame, stream>>

db_vars == <<db_instance, ctor_runs, ctor_fails, acquisitions>>

ctl_vars == <<controller, constructions, readout_init, train_steps>>

thread_vars == <<pc, frame>>

\* threads that share api_server.controller
Threads == {"T1", "T2"}

Init ==
    /\ module_present \in BOOLEAN
    /\ db_instance = None
    /\ ctor_runs = 0
    /\ ctor_fails = 0
    /\ acquisitions = 0
    /\ controller = None
    /\ constructions = 0
    /\ readout_init = None
    /\ train_steps = 0
    /\ last = [op |-> "start"]
    /\ result = None
    /\ pc = [th \in Threads |-> "idle"]
    /\ frame = [th \in Threads |-> None]
    /\ stream = None

\* simulation_db.get_simulation_db() called by a client of the module
GetSimulationDb(ctor_raises) ==
    /\ module_present
    /\ acquisitions < MaxAcquire
    /\ ctor_raises => (db_instance = None /\ ctor_fails < MaxCtorFail)
    /\ LET r == get_simulation_db(db_instance, ctor_runs, ctor_raises)
       IN  /\ db_instance' = r.instance
           /\ ctor_runs' = ctor_runs + r.ran
           /\ ctor_fails' = ctor_fails + (IF r.ret.kind = "raise" THEN 1 ELSE 0)
           /\ acquisitions' = acquisitions + (IF r.ret.kind = "raise" THEN 0 ELSE 1)
           /\ result' = r.ret
    /\ last' = [op |-> "get_simulation_db"]
    /\ UNCHANGED <<module_present, stream, ctl_vars, thread_vars>>

\* controller = MagnonicController()
Construct(seed, ctor_raises) ==
    /\ constructions < MaxConstruct
    /\ module_present => acquisitions < MaxAcquire
    /\ ctor_raises => (module_present /\ db_instance = None /\ ctor_fails < MaxCtorFail)
    /\ LET r == IF module_present
                THEN get_simulation_db(db_instance, ctor_runs, ctor_raises)
                ELSE [instance |-> db_instance, ret |-> None, ran |-> 0]
           init == init_simulation_db(module_present, r.ret)
       IN  /\ db_instance' = r.instance
           /\ ctor_runs' = ctor_runs + r.ran
           /\ ctor_fails' = ctor_fails + (IF r.ret.kind = "raise" THEN 1 ELSE 0)
           /\ acquisitions' = acquisitions + (IF r.ret.kind = "db" THEN 1 ELSE 0)
           /\ IF init.kind = "raise"
              THEN /\ result' = init
                   /\ UNCHANGED <<controller, readout_init, train_steps>>
              ELSE /\ controller' = [kind |-> "controller",
                                     readout |-> ReservoirReadout(seed),
                                     running |-> FALSE,
                                     sim_db |-> init.sim_db,
                                     use_precomputed |-> init.use_precomputed]
                   /\ readout_init' = ReservoirReadout(seed)
                   /\ train_steps' = 0
                   /\ result' = [kind |-> "constructed"]
    /\ constructions' = constructions + 1
    /\ last' = [op |-> "MagnonicController", module_present |-> module_present,
                ctor_raises |-> ctor_raises]
    /\ UNCHANGED <<module_present, stream, thread_vars>>

\* controller.process_eeg_stream(theta_power, beta_power) at clock reading t
ProcessIntent(theta_power, beta_power, t) ==
    /\ controller # None
    /\ result' = process_eeg_stream(controller, theta_power, beta_power, t)
    /\ last' = [op |-> "process_eeg_stream", theta |-> theta_power, beta |-> beta_power, t |-> t]
    /\ UNCHANGED <<module_present, stream, db_vars, ctl_vars, thread_vars>>

\* controller.simulate_action_pattern(action_name) at clock reading t
SimulateNamedAction(action_name, t) ==
    /\ controller # None
    /\ result' = simulate_action_pattern(controller, action_name, t)
    /\ last' = [op |-> "simulate_action_pattern", action_name |-> action_name, t |-> t]
    /\ UNCHANGED <<module_present, stream, db_vars, ctl_vars, thread_vars>>

\* predict that accumulates its output into the bias
PredictAccumulating(magnetic_state) ==
    /\ controller # None
    /\ result' = predict(controller.readout, magnetic_state)
    /\ controller' = IF result'.kind = "vector"
                     THEN [controller EXCEPT !.readout.bias = result'.value]
                     ELSE controller
    /\ last' = [op |-> "predict", magnetic_state |-> magnetic_state]
    /\ UNCHANGED <<module_present, stream, db_vars, constructions, readout_init, train_steps, thread_vars>>

\* controller.readout.predict(magnetic_state)
Predict(magnetic_state) ==
    /\ controller # None
    /\ result' = predict(controller.readout, magnetic_state)
    /\ last' = [op |-> "predict", magnetic_state |-> magnetic_state]
    /\ UNCHANGED <<module_present, stream, db_vars, ctl_vars, thread_vars>>

\* controller.readout.update_hebbian(magnetic_state, current_output,
\* target_output, learning_rate), one caller at a time
TrainStep(magnetic_state, current_output, target_output, learning_rate) ==
    /\ controller # None
    /\ train_steps < MaxTrain
    /\ LET r == update_hebbian(controller.readout, magnetic_state, current_output,
                               target_output, learning_rate)
       IN  /\ controller' = [controller EXCEPT !.readout = r.readout]
           /\ result' = r.signal
    /\ train_steps' = train_steps + 1
    /\ last' = [op |-> "update_hebbian", magnetic_state |-> magnetic_state,
                current_output |-> current_output, target_output |-> target_output,
                learning_rate |-> learning_rate]
    /\ UNCHANGED <<module_present, stream, db_vars, constructions, readout_init, thread_vars>>

\* update_hebbian entered by thread th: m_vec, error and the factors of
\* delta_W are locals of the call; nothing shared is touched yet
HebbianEnter(th, magnetic_state, current_output, target_output, learning_rate) ==
    /\ controller # None
    /\ pc[th] = "idle"
    /\ train_steps < MaxTrain
    /\ frame' = [frame EXCEPT ![th] = [m_vec |-> magnetic_state,
                                       error |-> hebbian_error(current_output, target_output),
                                       learning_rate |-> learning_rate]]
    /\ pc' = [pc EXCEPT ![th] = "line41"]
    /\ train_steps' = train_steps + 1
    /\ last' = [op |-> "update_hebbian", thread |-> th]
    /\ UNCHANGED <<module_present, stream, db_vars, controller, constructions, readout_init, result>>

\* thread th executes self.W_out += delta_W
HebbianWriteW(th) ==
    /\ pc[th] = "line41"
    /\ LET w == hebbian_W(controller.readout.W_out, frame[th].m_vec, frame[th].error,
                          frame[th].learning_rate)
       IN  IF w.kind = "raise"
           THEN /\ result' = w
                /\ pc' = [pc EXCEPT ![th] = "idle"]
                /\ frame' = [frame EXCEPT ![th] = None]
                /\ UNCHANGED controller
           ELSE /\ controller' = [controller EXCEPT !.readout.W_out = w.W_out]
                /\ pc' = [pc EXCEPT ![th] = "line42"]
                /\ UNCHANGED <<result, frame>>
    /\ last' = [op |-> "W_out +=", thread |-> th]
    /\ UNCHANGED <<module_present, stream, db_vars, constructions, readout_init, train_steps>>

\* thread th executes self.bias += learning_rate * error and returns
HebbianWriteBias(th) ==
    /\ pc[th] = "line42"
    /\ controller' = [controller EXCEPT !.readout.bias =
                         hebbian_bias(controller.readout.bias, frame[th].error,
                                      frame[th].learning_rate)]
    /\ pc' = [pc EXCEPT ![th] = "idle"]
    /\ frame' = [frame EXCEPT ![th] = None]
    /\ result' = None
    /\ last' = [op |-> "bias +=", thread |-> th]
    /\ UNCHANGED <<module_present, stream, db_vars, constructions, readout_init, train_steps>>

\* get_simulation_db-held instance: db.get_magnetic_state(theta_power, beta_power, t)
ContinuousField(theta_power, beta_power, t) ==
    /\ db_instance # None
    /\ result' = [kind |-> "field",
                  value |-> get_magnetic_state(db_instance, theta_power, beta_power, t)]
    /\ last' = [op |-> "get_magnetic_state", theta |-> theta_power, beta |-> beta_power, t |-> t]
    /\ UNCHANGED <<module_present, stream, db_vars, ctl_vars, thread_vars>>

\* db.get_physics_metadata(theta_power, beta_power)
Metadata(theta_power, beta_power) ==
    /\ db_instance # None
    /\ result' = [kind |-> "metadata",
                  value |-> get_physics_metadata(db_instance, theta_power, beta_power)]
    /\ last' = [op |-> "get_physics_metadata", theta |-> theta_power, beta |-> beta_power]
    /\ UNCHANGED <<module_present, stream, db_vars, ctl_vars, thread_vars>>

\* websocket_auto_stream: websocket.accept() and the locals before the loop
StreamAccept ==
    /\ controller # None
    /\ stream = None
    /\ stream' = [action_idx |-> 0, frame_count |-> 0]
    /\ last' = [op |-> "accept"]
    /\ result' = None
    /\ UNCHANGED <<module_present, db_vars, ctl_vars, thread_vars>>

\* one turn of the loop of websocket_auto_stream: advance the index on every
\* CycleFrames-th frame, simulate the action, tag and send the frame, count it.
\* An exception of simulate_action_pattern is not caught and ends the handler.
StreamFrame(t) ==
    /\ stream # None
    /\ stream.frame_count < MaxFrames
    /\ LET action_idx == IF stream.frame_count % CycleFrames = 0
                         THEN (stream.action_idx + 1) % Len(actions)
                         ELSE stream.action_idx
           action == actions[action_idx + 1]
           r == simulate_action_pattern(controller, action, t)
       IN  IF r.kind = "raise"
           THEN /\ stream' = None
                /\ result' = r
           ELSE /\ stream' = [action_idx |-> action_idx,
                              frame_count |-> stream.frame_count + 1]
                /\ result' = [current_action |-> action] @@ r
    /\ last' = [op |-> "send_json", t |-> t]
    /\ UNCHANGED <<module_present, db_vars, ctl_vars, thread_vars>>

\* the client goes away: WebSocketDisconnect ends the loop
StreamDisconnect ==
    /\ stream # None
    /\ stream' = None
    /\ last' = [op |-> "WebSocketDisconnect"]
    /\ result' = None
    /\ UNCHANGED <<module_present, db_vars, ctl_vars, thread_vars>>

\* The controller and the database as the server uses them: acquisitions,
\* construction and the read-only calls.
Next ==
    \/ \E ctor_raises \in BOOLEAN : GetSimulationDb(ctor_raises)
    \/ \E seed \in Seeds, ctor_raises \in BOOLEAN : Construct(seed, ctor_raises)
    \/ \E pt \in ParamInputs, t \in Times : ProcessIntent(pt[1], pt[2], t)
    \/ \E action_name \in ActionNames, t \in Times : SimulateNamedAction(action_name, t)
    \/ \E pt \in ParamInputs, t \in Times : ContinuousField(pt[1], pt[2], t)
    \/ \E pt \in ParamInputs : Metadata(pt[1], pt[2])

Spec == Init /\ [][Next]_vars

\* The readout under online training: construction, inference and
\* update_hebbian calls made one at a time.
NextReadout ==
    \/ \E seed \in Seeds : Construct(seed, FALSE)
    \/ \E magnetic_state \in ReadoutFields : Predict(magnetic_state)
    \/ \E magnetic_state \in ReadoutFields, current_output \in OutputVectors,
          target_output \in OutputVectors, learning_rate \in LearningRates :
            TrainStep(magnetic_state, current_output, target_output, learning_rate)
    \/ \E t \in Times : ProcessIntent(7, 12, t)
    \/ \E t \in Times : SimulateNamedAction("WALK", t)

SpecReadout == Init /\ [][NextReadout]_vars

\* update_hebbian called from several threads on the shared readout; the code
\* takes no lock, so the threads' statements interleave freely.
NextConc ==
    \/ \E seed \in Seeds : (\A th \in Threads : pc[th] = "idle") /\ Construct(seed, FALSE)
    \/ \E th \in Threads, magnetic_state \in ReadoutFields, current_output \in OutputVectors,
          target_output \in OutputVectors, learning_rate \in LearningRates :
            HebbianEnter(th, magnetic_state, current_output, target_output, learning_rate)
    \/ \E th \in Threads : HebbianWriteW(th)
    \/ \E th \in Threads : HebbianWriteBias(th)

SpecConc == Init /\ [][NextConc]_vars

\* The auto-stream endpoint on the server's controller.
NextStream ==
    \/ \E seed \in Seeds : Construct(seed, FALSE)
    \/ StreamAccept
    \/ \E t \in Times : StreamFrame(t)
    \/ StreamDisconnect

SpecStream == Init /\ [][NextStream]_vars

\* ------------------------------------------------------------------ claims
\* (theta, beta) values inside [0, 1] probed by the claims
UnitValues == {0, 2, 5, 8, 10, 13, 16, 18, 20}

\* the controller holds no database
DbUnavailable == controller.sim_db = None

\* C1: for the same time and the same weights, processIntent(theta=-1, beta=2)
\* returns a bundle identical in every field to processIntent(theta=0, beta=1).
C1_ClampedIdentical ==
    (last.op = "process_eeg_stream" /\ last.theta = -20 /\ last.beta = 40)
        => result = process_eeg_stream(controller, 0, 20, last.t)

\* C2: when obtaining the database fails during construction (module absent, or
\* the database constructor raises), construction completes, the controller is
\* in fallback mode, every later processIntent is tagged "mock", and nothing is
\* propagated to the caller.
C2_ConstructionSurvivesDbFailure ==
    (last.op = "MagnonicController" /\ (~last.module_present \/ last.ctor_raises))
        => /\ result.kind = "constructed"
           /\ controller # None
           /\ ~controller.use_precomputed
           /\ \A pt \in ParamInputs, t \in Times :
                process_eeg_stream(controller, pt[1], pt[2], t).physics = [source |-> "mock"]

\* C3: with the database unavailable, processIntent returns, for every (theta,
\* beta) in [0,1]x[0,1], a bundle with output_dim joint angles, a fluidity
\* index, sim_params {alpha, b_ext, theta, beta} and physics exactly
\* {source: "mock"}; and the provenance is "mock" only when the database is
\* unavailable.
C3_FallbackWellFormed ==
    controller # None =>
        \A theta \in UnitValues, beta \in UnitValues, t \in Times :
            LET r == process_eeg_stream(controller, theta, beta, t)
            IN  /\ DbUnavailable =>
                    /\ r.kind = "bundle"
                    /\ DOMAIN r = {"kind", "joint_angles", "fluidity_index", "sim_params", "physics"}
                    /\ Len(r.joint_angles) = output_dim
                    /\ DOMAIN r.sim_params = {"alpha", "b_ext", "theta", "beta"}
                    /\ r.physics = [source |-> "mock"]
                /\ (r.kind = "bundle" /\ r.physics.source = "mock") => DbUnavailable

C3_Witness ==
    /\ controller # None
    /\ DbUnavailable
    /\ last.op = "process_eeg_stream"
    /\ result.kind = "bundle"
    /\ result.physics = [source |-> "mock"]
    /\ Len(result.joint_angles) = output_dim

\* C4: predict returns a kinematic vector for every field of input_dim pixels,
\* signals a failure for every field of another pixel count (no truncation, no
\* padding), and leaves weights and bias unchanged.
C4_PredictChecksDimension ==
    [][last'.op = "predict" =>
          /\ controller' = controller
          /\ Len(last'.magnetic_state) = input_dim =>
                /\ result'.kind = "vector"
                /\ \A j \in 1..output_dim :
                      result'.value[j] = Dot(controller.readout.W_out, last'.magnetic_state, j)
                                         + controller.readout.bias[j]
          /\ Len(last'.magnetic_state) # input_dim => result'.kind = "raise"]_vars

C4_Witness ==
    /\ last.op = "predict"
    /\ Len(last.magnetic_state) = 1
    /\ result = [kind |-> "raise", error |-> "ValueError"]

\* C5: two concurrent trainStep calls never interleave partially: while one
\* call stands between its weight update and its bias update, no write of
\* another call is applied to the readout.
C5_WritesNeverInterleave ==
    [][\A th \in Threads :
          (pc[th] = "line42" /\ pc'[th] = "line42"
           /\ frame[th].error # [j \in 1..output_dim |-> 0])
              => controller'.readout = controller.readout]_vars

\* C6: any number of consecutive trainStep calls with targetOutput equal to
\* currentOutput leave the weight matrix and the bias vector exactly as they
\* were, for every field and every learning rate.
C6_ZeroErrorNoUpdate ==
    [][(last'.op = "update_hebbian" /\ last'.target_output = last'.current_output)
          => controller'.readout = controller.readout]_vars

C6_Witness ==
    /\ last.op = "update_hebbian"
    /\ last.target_output = last.current_output
    /\ last.target_output # [j \in 1..output_dim |-> 0]
    /\ Len(last.magnetic_state) = input_dim
    /\ train_steps = 2
    /\ controller.readout = readout_init

\* C7: trainStep is the only operation that changes the readout weights: after
\* any sequence of predict, processIntent and simulateNamedAction calls with no
\* trainStep, weights and bias equal their values at initialization.
C7_OnlyTrainStepMutates ==
    (controller # None /\ train_steps = 0) => controller.readout = readout_init

C7_Witness ==
    /\ controller # None
    /\ train_steps = 0
    /\ last.op = "predict"
    /\ result.kind = "vector"
    /\ controller.readout = readout_init

\* C8: the database is built at most once and is read-only afterward: the
\* constructor runs only on the first acquisition (no constructor run follows
\* the one that built the instance), every later acquisition and every
\* controller holds that same instance, and its 25 entries stay what
\* construction produced.
C8_BuiltOnceReadOnly ==
    /\ ctor_runs - ctor_fails <= 1
    /\ acquisitions > 0 => (db_instance # None /\ ctor_runs - ctor_fails = 1)
    /\ db_instance # None =>
          /\ db_instance.id = ctor_runs
          /\ Cardinality(DOMAIN db_instance.patterns) = 25
          /\ db_instance.patterns = generate_grid_patterns
          /\ db_instance.pattern_array = build_interpolators(generate_grid_patterns)
    /\ (controller # None /\ controller.sim_db # None) => controller.sim_db = db_instance
    /\ result.kind = "db" => result = db_instance

C8_Witness ==
    /\ acquisitions = 2
    /\ ctor_runs - ctor_fails = 1
    /\ controller # None
    /\ controller.sim_db = db_instance
    /\ last.op = "get_magnetic_state"

\* names that are none of STAND, WALK, RUN
OtherNames == {"JUMP", "stand", ""}

\* C9: simulateNamedAction equals processIntent with STAND -> (0.8, 0.1),
\* WALK -> (0.4, 0.5), RUN -> (0.1, 0.9) and every other name -> (0.5, 0.5),
\* for the same time and weights.
C9_NamedActionPairs ==
    /\ controller # None =>
          \A t \in Times :
              /\ simulate_action_pattern(controller, "STAND", t) = process_eeg_stream(controller, 16, 2, t)
              /\ simulate_action_pattern(controller, "WALK", t) = process_eeg_stream(controller, 8, 10, t)
              /\ simulate_action_pattern(controller, "RUN", t) = process_eeg_stream(controller, 2, 18, t)
              /\ \A name \in OtherNames :
                    simulate_action_pattern(controller, name, t) = process_eeg_stream(controller, 10, 10, t)
    /\ (last.op = "simulate_action_pattern" /\ last.action_name = "WALK")
          => result = process_eeg_stream(controller, 8, 10, last.t)

C9_Witness ==
    /\ last.op = "simulate_action_pattern"
    /\ last.action_name = "WALK"
    /\ result.kind = "bundle"
    /\ result.sim_params.theta = 8
    /\ result.sim_params.beta = 10
    /\ result.physics.source = "interpolated_mumax3_5x5"

\* C10: with t = 0, continuousField at a grid point is exactly the stored
\* field of that point, pixel for pixel, for the four corners and for every
\* point with theta and beta on a grid step.
C10_GridPointsExact ==
    /\ db_instance # None =>
          \A theta \in StepSet, beta \in StepSet :
              get_magnetic_state(db_instance, theta, beta, 0) = db_instance.patterns[<<theta, beta>>]
    /\ (last.op = "get_magnetic_state" /\ last.t = 0
        /\ last.theta \in StepSet /\ last.beta \in StepSet)
          => result.value = db_instance.patterns[<<last.theta, last.beta>>]

C10_Witness ==
    /\ last.op = "get_magnetic_state"
    /\ last.t = 0
    /\ last.theta = 5
    /\ last.beta = 15
    /\ result.value = db_instance.patterns[<<5, 15>>]
    /\ db_instance.patterns[<<5, 15>>] # db_instance.patterns[<<0, 15>>]
    /\ db_instance.patterns[<<5, 15>>] # db_instance.patterns[<<10, 15>>]
    /\ db_instance.patterns[<<5, 15>>] # db_instance.patterns[<<5, 10>>]
    /\ db_instance.patterns[<<5, 15>>] # db_instance.patterns[<<5, 20>>]

\* n^3 times the variance of k: the sum of the squared deviations
\* (n * k[j] - sum(k))^2 from the mean
VarianceN3(k) ==
    LET s1 == SumTo(k, output_dim)
    IN  SumTo([j \in 1..output_dim |-> (output_dim * k[j] - s1) * (output_dim * k[j] - s1)],
              output_dim)

\* the fraction f lies in (0, 1]
InUnitInterval(f) == 0 < f.num /\ f.num <= f.den

\* the fraction f is smaller than the fraction g (positive denominators)
FractionLess(f, g) == f.num * g.den < g.num * f.den

\* kinematic vectors probed directly
KinematicProbes == [1..output_dim -> {-2, 0, 1, 3}]

\* (theta, beta) pairs probed through processIntent
FluidityProbes == {<<0, 0>>, <<7, 12>>, <<0, 20>>, <<16, 2>>}

\* what processIntent returns on the probed pairs and clock readings
FluidityResults ==
    {process_eeg_stream(controller, p[1][1], p[1][2], p[2]) : p \in FluidityProbes \X Times}

\* the fluidity of the vectors k1 and k2 obeys the claim
FluidityObeys(k1, k2) ==
    /\ InUnitInterval(fluidity_of(k1))
    /\ (fluidity_of(k1).num = fluidity_of(k1).den) <=> (VarianceN3(k1) = 0)
    /\ VarianceN3(k1) < VarianceN3(k2) => FractionLess(fluidity_of(k2), fluidity_of(k1))

\* the claim on every pair of probed kinematic vectors
FluidityLaw == \A k1 \in KinematicProbes, k2 \in KinematicProbes : FluidityObeys(k1, k2)

\* C11: the fluidity_index of processIntent is greater than 0 and at most 1,
\* equals 1 exactly when the variance of the kinematic vector is 0, and is
\* strictly smaller for a larger variance.
C11_FluidityBounded ==
    /\ FluidityLaw
    /\ controller # None =>
          \A r1 \in FluidityResults, r2 \in FluidityResults :
                  /\ r1.kind = "bundle"
                  /\ InUnitInterval(r1.fluidity_index)
                  /\ (r1.fluidity_index.num = r1.fluidity_index.den)
                        <=> (VarianceN3(r1.joint_angles) = 0)
                  /\ VarianceN3(r1.joint_angles) < VarianceN3(r2.joint_angles)
                        => FractionLess(r2.fluidity_index, r1.fluidity_index)
    /\ result.kind = "bundle" =>
          /\ InUnitInterval(result.fluidity_index)
          /\ (result.fluidity_index.num = result.fluidity_index.den)
                <=> (VarianceN3(result.joint_angles) = 0)

C11_Witness ==
    /\ last.op = "process_eeg_stream"
    /\ result.kind = "bundle"
    /\ VarianceN3(result.joint_angles) > 0
    /\ result.fluidity_index.num < result.fluidity_index.den

\* C12: a trainStep call with a field of input_dim pixels and current and
\* target vectors of length output_dim changes the state to exactly
\* weights[j][i] + learningRate * (target[j] - current[j]) * field[i] and
\* bias[j] + learningRate * (target[j] - current[j]); every call adds its
\* increments to what the calls before it left.
C12_ExactHebbianUpdate ==
    [][(last'.op = "update_hebbian" /\ Len(last'.magnetic_state) = input_dim)
          => /\ \A j \in 1..output_dim, i \in 1..input_dim :
                   controller'.readout.W_out[j][i] =
                       controller.readout.W_out[j][i]
                       + last'.learning_rate
                         * (last'.target_output[j] - last'.current_output[j])
                         * last'.magnetic_state[i]
             /\ \A j \in 1..output_dim :
                   controller'.readout.bias[j] =
                       controller.readout.bias[j]
                       + last'.learning_rate
                         * (last'.target_output[j] - last'.current_output[j])
             /\ result' = None]_vars

C12_Witness ==
    /\ last.op = "update_hebbian"
    /\ Len(last.magnetic_state) = input_dim
    /\ last.learning_rate = 2
    /\ last.target_output # last.current_output
    /\ train_steps = 2
    /\ controller.readout.bias[1] = readout_init.bias[1] + 4
    /\ controller.readout.W_out[1][1] = readout_init.W_out[1][1] + 4
    /\ controller.readout.W_out[1][2] = readout_init.W_out[1][2]

\* C13: trainStep called with a field whose pixel count differs from
\* input_dim (a field of a single pixel included) signals a dimension-mismatch
\* failure and leaves the weight matrix and the bias vector unchanged.
C13_MismatchedFieldRejected ==
    [][(last'.op = "update_hebbian" /\ Len(last'.magnetic_state) # input_dim
        /\ last'.target_output # last'.current_output)
          => /\ result'.kind = "raise"
             /\ controller'.readout = controller.readout]_vars


\* C14: in the auto-stream endpoint the action index advances by one modulo 5
\* exactly on frames whose count is a multiple of 50, each sent frame carries
\* current_action equal to the action at the current index, and the first 50
\* frames of the stream carry the first action of the list, STAND.
C14_AutoStreamCycle ==
    [][(last'.op = "send_json" /\ stream # None /\ stream' # None)
          => /\ stream'.action_idx =
                   IF stream.frame_count % CycleFrames = 0
                   THEN (stream.action_idx + 1) % 5
                   ELSE stream.action_idx
             /\ result'.current_action = actions[stream'.action_idx + 1]
             /\ stream.frame_count < CycleFrames => result'.current_action = "STAND"]_vars

====
